---- MODULE Spec2Model ----
(***************************************************************************)
(* Model of the change-stream worker of realworld-mongodb-change-streams.  *)
(*                                                                         *)
(* Spec models one worker process: main() (connect, enable pre/post        *)
(* images, start the three change streams, print the readiness marker),    *)
(* the loop of startChangeStream for every stream, the sync_state          *)
(* collection, process crashes and restarts.  The handler passed to        *)
(* startChangeStream is a callback: the loop only sees it return or throw. *)
(* FairSpec is Spec with the scheduling of the event loop as fairness.     *)
(*                                                                         *)
(* SpecHandlers models the three handlers (handleUserChange,               *)
(* handleArticleChange, handleFavoriteChange) on the derived collections.  *)
(*                                                                         *)
(* SpecShards models a deployment of SHARD_COUNT workers watching one      *)
(* collection through the pipeline of createShardingPipeline.              *)
(*                                                                         *)
(* SpecConfig models the start of one process: getShardConfig on the       *)
(* environment, the MONGODB_URI check, and what the process goes on to do. *)
(*                                                                         *)
(* SpecOneChange models one call of a handler on one change event, with    *)
(* no other writer on the derived collections.                             *)
(*                                                                         *)
(* SpecRace models the handler calls of several workers step by step, one   *)
(* database call at a time, on the shared tags and articles collections.   *)
(*                                                                         *)
(* SpecFaults is Spec with the faults the loop has no handler for: an      *)
(* error raised by a stream, and a termination signal.                     *)
(*                                                                         *)
(* SpecUpdates models successive profile edits of one user, the change     *)
(* events the server logs for them, and handleUserChange called on them in *)
(* log order.                                                              *)
(*                                                                         *)
(* SpecTags models writes of the application on the articles collection,  *)
(* the change events logged for them and handleArticleChange called on     *)
(* them in log order; SpecFavs does the same for the favorites collection  *)
(* with the workers of two shards.                                         *)
(*                                                                         *)
(* The specifications share the variables; each keeps the variables of the *)
(* parts it leaves out at their idle values.                               *)
(***************************************************************************)
EXTENDS Integers, Sequences, FiniteSets, TLC

\* ------------------------------------------------------------------ bounds
\* change events appended to the log, all streams of the worker's shard together
MaxLog == 2
\* process crashes (kill, fatal error) the environment inflicts
MaxCrashes == 1

\* ------------------------------------------------------------- the worker
\* the three streams main() starts, in the order it starts them
Streams == {"users", "articles", "favorites"}

\* sync_state holds no record for the stream (findOne returns null)
NoState == 0

Positions == 1..MaxLog

VARIABLES
  mainPc,          \* where main() stands: "connect", "images", "users",
                   \* "articles", "favorites", "ready", "running", "down"
  marker,          \* readiness markers this process has printed
  oplog,           \* oplog[s]: events of the stream's shard, as their number;
                   \* the event at position p has resume token p
  syncState,       \* syncState[s]: resumeToken of the sync_state record, or NoState
  cursor,          \* cursor[s]: position of the last event the open stream yielded
  loopPc,          \* loopPc[s]: "off", "next" (for await), "handle", "save"
  delivered,       \* history: positions handed to handleChange
  handledOk,       \* history: positions whose handleChange returned
  errorLog,        \* positions reported by console.error
  firstToken,      \* history: the first resume token ever stored, or NoState
  firstOpen,       \* history: the position the stream was first opened at, or -1
  unsaved,         \* history: events whose handler had returned, and whose token
                   \* was not yet saved, when the process crashed
  crashes,         \* history: crashes so far
  saveFailed,      \* history: saveFailed[s]: positions whose token write threw
  streamErrors,    \* history: errors a change stream has raised (SpecFaults)
  signals,         \* history: termination signals the process was sent (SpecFaults)
  \* --- the derived collections the handlers write (SpecHandlers)
  articles,        \* articles[id]: authorId, author fields, favoritesCount
  comments,        \* comments[id]: authorId, author fields
  tags,            \* tags[name]: articleCount; the domain is the existing records
  changes,         \* change events handled so far
  lastChange,      \* the collection of the last event handled and its outcome
  event,           \* the change event a stream is about to hand, or has handed,
                   \* to its handler (SpecOneChange)
  \* --- a deployment of SHARD_COUNT workers on one watched collection (SpecShards)
  shardCount,      \* SHARD_COUNT of the deployment; worker w has SHARD_INDEX w
  hashedKey,       \* hashedKey[d]: $toHashedIndexKey of document d's _id
  changeLog,       \* the collection's change events, as the documents they touch
  pipelines,       \* pipelines[w]: the pipeline worker w watches with
  examined,        \* examined[w]: events worker w's stream has run its pipeline on
  streamState,     \* streamState[w]: "open", or "failed" after a pipeline error
  handledBy,       \* handledBy[i]: the workers whose handler was given event i
  \* --- the start of one worker process (SpecConfig)
  env,             \* process.env: MONGODB_URI, SHARD_COUNT, SHARD_INDEX
  bootPc,          \* "load", "main", "connected", "watching", "exit"
  shardConfig,     \* what getShardConfig returned, or Null
  stateIds,        \* stateIds[s]: the stateId main() gives the stream's runner
  \* --- handler calls of concurrent workers on the shared collections (SpecRace)
  addedLeft,       \* addedLeft[w]: the added tags worker w's loop has still to increment
  removedLeft,     \* removedLeft[w]: the removed tags its loop has still to decrement
  deleting,        \* deleting[w]: the tag whose record w is about to delete, or Null
  expected,        \* history: expected[t]: the count of t's record when it was
                   \* created (or found), plus the deltas applied to it since
  expectedFav,     \* history: expectedFav[a]: the favoritesCount a was found with,
                   \* plus the deltas applied to it since
  deletedCounts,   \* history: the articleCount of every record at its deletion
  \* --- a user's profile edits and their change events (SpecUpdates)
  versions,        \* the versions of the user's document, oldest first
  userLog,         \* the change events of the user's document, in log order
  updates,         \* history: updateOne calls made on the user's document
  writes,          \* history: updateMany calls handleUserChange has issued
  \* --- the source collections and their change events (SpecTags, SpecFavs)
  tagVersions,     \* tagVersions[a]: the tagList of article a after each write
  articleLog,      \* change events of articles not yet handled, in log order
  favorites,       \* the favorites collection: favorite id -> articleId
  favoriteLog,     \* favoriteLog[w]: events of worker w's shard not yet handled
  srcWrites        \* history: writes the application has made

faultVars == <<saveFailed, streamErrors, signals>>

runnerVars == <<mainPc, marker, oplog, syncState, cursor, loopPc, delivered, handledOk,
                errorLog, firstToken, firstOpen, unsaved, crashes, faultVars>>

handlerVars == <<articles, comments, tags, changes, lastChange, event>>

shardVars == <<shardCount, hashedKey, changeLog, pipelines, examined, streamState,
               handledBy>>

configVars == <<env, bootPc, shardConfig, stateIds>>

raceVars == <<addedLeft, removedLeft, deleting, expected, expectedFav, deletedCounts>>

updateVars == <<versions, userLog, updates, writes>>

sourceVars == <<tagVersions, articleLog, favorites, favoriteLog, srcWrites>>

vars == <<runnerVars, handlerVars, shardVars, configVars, raceVars, updateVars,
          sourceVars>>

\* what the actions of one part leave alone
outsideWorker == <<handlerVars, shardVars, configVars, raceVars, updateVars, sourceVars>>
outsideRunner == <<outsideWorker, faultVars>>
outsideHandlers == <<runnerVars, shardVars, configVars, raceVars, updateVars, sourceVars>>
outsideShards == <<runnerVars, handlerVars, configVars, raceVars, updateVars, sourceVars>>
outsideConfig == <<runnerVars, handlerVars, shardVars, raceVars, updateVars, sourceVars>>
outsideRace == <<runnerVars, shardVars, configVars, updateVars, sourceVars>>
outsideUpdates == <<runnerVars, shardVars, configVars, raceVars, sourceVars>>
outsideSources == <<runnerVars, shardVars, configVars, raceVars, updateVars>>

LogTotal == oplog["users"] + oplog["articles"] + oplog["favorites"]

\* a watch that ignores the stored token and always starts from "now"
ResumeAfter_Now(state, now) == now

\* a watch that replays the log from its beginning
ResumeAfter_Start(state, now) == 0

\* resumeAfter: state?.resumeToken -- the position the stream is opened at:
\* after the stored token, or at the end of the log ("now") without one
ResumeAfter(state, now) == IF state = NoState THEN now ELSE state

InitRunner ==
  /\ mainPc = "connect"
  /\ marker = 0
  /\ oplog = [s \in Streams |-> 0]
  /\ syncState = [s \in Streams |-> NoState]
  /\ cursor = [s \in Streams |-> 0]
  /\ loopPc = [s \in Streams |-> "off"]
  /\ delivered = [s \in Streams |-> {}]
  /\ handledOk = [s \in Streams |-> {}]
  /\ errorLog = [s \in Streams |-> {}]
  /\ firstToken = [s \in Streams |-> NoState]
  /\ firstOpen = [s \in Streams |-> -1]
  /\ unsaved = [s \in Streams |-> {}]
  /\ crashes = 0
  /\ saveFailed = [s \in Streams |-> {}]
  /\ streamErrors = 0
  /\ signals = 0

\* no change event was handed to a handler yet
NoEvent == [coll |-> "none"]

\* the derived collections, when a specification leaves the handlers out
IdleHandlers ==
  /\ articles = <<>>
  /\ comments = <<>>
  /\ tags = <<>>
  /\ changes = 0
  /\ lastChange = "none"
  /\ event = NoEvent

\* the deployment, when a specification leaves the sharding out
IdleShards ==
  /\ shardCount = 1
  /\ hashedKey = <<>>
  /\ changeLog = <<>>
  /\ pipelines = <<>>
  /\ examined = <<>>
  /\ streamState = <<>>
  /\ handledBy = <<>>

\* the process start, when a specification begins after it
IdleConfig ==
  /\ env = <<>>
  /\ bootPc = "main"
  /\ shardConfig = <<>>
  /\ stateIds = <<>>

\* no handler call is in flight, when a specification runs the handlers whole
IdleUpdates ==
  /\ versions = <<>>
  /\ userLog = <<>>
  /\ updates = 0
  /\ writes = 0

IdleSources ==
  /\ tagVersions = <<>>
  /\ articleLog = <<>>
  /\ favorites = <<>>
  /\ favoriteLog = <<>>
  /\ srcWrites = 0

IdleRace ==
  /\ addedLeft = <<>>
  /\ removedLeft = <<>>
  /\ deleting = <<>>
  /\ expected = <<>>
  /\ expectedFav = <<>>
  /\ deletedCounts = {}

\* await client.connect()
Connect ==
  /\ mainPc = "connect"
  /\ mainPc' = "images"
  /\ UNCHANGED <<marker, oplog, syncState, cursor, loopPc, delivered, handledOk,
                 errorLog, firstToken, firstOpen, unsaved, crashes, outsideRunner>>

\* the three ensurePreAndPostImages calls
EnsurePreAndPostImages ==
  /\ mainPc = "images"
  /\ mainPc' = "users"
  /\ UNCHANGED <<marker, oplog, syncState, cursor, loopPc, delivered, handledOk,
                 errorLog, firstToken, firstOpen, unsaved, crashes, outsideRunner>>

AfterStart(s) ==
  CASE s = "users" -> "articles"
    [] s = "articles" -> "favorites"
    [] s = "favorites" -> "ready"

\* startChangeStream: findOne the state, watch with resumeAfter, launch the loop
StartChangeStream(s) ==
  /\ mainPc = s
  /\ cursor' = [cursor EXCEPT ![s] = ResumeAfter(syncState[s], oplog[s])]
  /\ loopPc' = [loopPc EXCEPT ![s] = "next"]
  /\ mainPc' = AfterStart(s)
  /\ firstOpen' = [firstOpen EXCEPT ![s] =
                     IF @ = -1 THEN ResumeAfter(syncState[s], oplog[s]) ELSE @]
  /\ UNCHANGED <<marker, oplog, syncState, delivered, handledOk, errorLog,
                 firstToken, unsaved, crashes, outsideRunner>>

\* the marker printed once pre/post images are on, before any stream is watched
Ready_BeforeStreams ==
  /\ mainPc = "users"
  /\ marker = 0
  /\ marker' = marker + 1
  /\ UNCHANGED <<mainPc, oplog, syncState, cursor, loopPc, delivered, handledOk, errorLog,
                 firstToken, firstOpen, unsaved, crashes, outsideRunner>>

\* console.log(`__READY__SHARD__...`)
Ready ==
  /\ mainPc = "ready"
  /\ mainPc' = "running"
  /\ marker' = marker + 1
  /\ UNCHANGED <<oplog, syncState, cursor, loopPc, delivered, handledOk, errorLog,
                 firstToken, firstOpen, unsaved, crashes, outsideRunner>>

\* a write to the source collection appends a change event to the stream's shard
AppendEvent(s) ==
  /\ LogTotal < MaxLog
  /\ oplog' = [oplog EXCEPT ![s] = @ + 1]
  /\ UNCHANGED <<mainPc, marker, syncState, cursor, loopPc, delivered, handledOk,
                 errorLog, firstToken, firstOpen, unsaved, crashes, outsideRunner>>

\* a loop that saves the resume token before it calls the handler
Deliver_SavesFirst(s) ==
  /\ loopPc[s] = "next"
  /\ cursor[s] < oplog[s]
  /\ cursor' = [cursor EXCEPT ![s] = @ + 1]
  /\ loopPc' = [loopPc EXCEPT ![s] = "handle"]
  /\ delivered' = [delivered EXCEPT ![s] = @ \cup {cursor[s] + 1}]
  /\ unsaved' = [unsaved EXCEPT ![s] = {u \in @ : u.pos # cursor[s] + 1}]
  /\ syncState' = [syncState EXCEPT ![s] = cursor[s] + 1]
  /\ firstToken' = [firstToken EXCEPT ![s] = IF @ = NoState THEN cursor[s] + 1 ELSE @]
  /\ UNCHANGED <<mainPc, marker, oplog, handledOk, errorLog, firstOpen, crashes, outsideRunner>>

\* for await (const change of stream): the stream yields its next event and
\* the loop calls handleChange(change)
\* a loop that pulls the next event without awaiting the work on the previous one
Deliver_WhileHandling(s) ==
  /\ loopPc[s] \in {"next", "handle", "save"}
  /\ cursor[s] < oplog[s]
  /\ cursor' = [cursor EXCEPT ![s] = @ + 1]
  /\ loopPc' = [loopPc EXCEPT ![s] = "handle"]
  /\ delivered' = [delivered EXCEPT ![s] = @ \cup {cursor[s] + 1}]
  /\ unsaved' = [unsaved EXCEPT ![s] = {u \in @ : u.pos # cursor[s] + 1}]
  /\ UNCHANGED <<mainPc, marker, oplog, syncState, handledOk, errorLog,
                 firstToken, firstOpen, crashes, outsideRunner>>

Deliver(s) ==
  /\ loopPc[s] = "next"
  /\ cursor[s] < oplog[s]
  /\ cursor' = [cursor EXCEPT ![s] = @ + 1]
  /\ loopPc' = [loopPc EXCEPT ![s] = "handle"]
  /\ delivered' = [delivered EXCEPT ![s] = @ \cup {cursor[s] + 1}]
  /\ unsaved' = [unsaved EXCEPT ![s] = {u \in @ : u.pos # cursor[s] + 1}]
  /\ UNCHANGED <<mainPc, marker, oplog, syncState, handledOk, errorLog,
                 firstToken, firstOpen, crashes, outsideRunner>>

\* await handleChange(change) returns
HandleReturns(s) ==
  /\ loopPc[s] = "handle"
  /\ loopPc' = [loopPc EXCEPT ![s] = "save"]
  /\ handledOk' = [handledOk EXCEPT ![s] = @ \cup {cursor[s]}]
  /\ UNCHANGED <<mainPc, marker, oplog, syncState, cursor, delivered, errorLog,
                 firstToken, firstOpen, unsaved, crashes, outsideRunner>>

\* a catch block that saves the resume token of the failed event
HandleThrows_SavesToken(s) ==
  /\ loopPc[s] = "handle"
  /\ loopPc' = [loopPc EXCEPT ![s] = "next"]
  /\ errorLog' = [errorLog EXCEPT ![s] = @ \cup {cursor[s]}]
  /\ syncState' = [syncState EXCEPT ![s] = cursor[s]]
  /\ firstToken' = [firstToken EXCEPT ![s] = IF @ = NoState THEN cursor[s] ELSE @]
  /\ UNCHANGED <<mainPc, marker, oplog, cursor, delivered, handledOk, firstOpen, unsaved,
                 crashes, outsideRunner>>

\* a loop without the try/catch: the handler's error ends the loop
HandleThrows_EndsLoop(s) ==
  /\ loopPc[s] = "handle"
  /\ loopPc' = [loopPc EXCEPT ![s] = "off"]
  /\ errorLog' = [errorLog EXCEPT ![s] = @ \cup {cursor[s]}]
  /\ UNCHANGED <<mainPc, marker, oplog, syncState, cursor, delivered, handledOk,
                 firstToken, firstOpen, unsaved, crashes, outsideRunner>>

\* await handleChange(change) throws: catch, console.error, next iteration
\* a handler error that escapes to main().catch: logged, then process.exit(1)
HandleThrows_ExitsProcess(s) ==
  /\ loopPc[s] = "handle"
  /\ errorLog' = [errorLog EXCEPT ![s] = @ \cup {cursor[s]}]
  /\ mainPc' = "down"
  /\ marker' = 0
  /\ loopPc' = [t \in Streams |-> "off"]
  /\ cursor' = [t \in Streams |-> 0]
  /\ UNCHANGED <<oplog, syncState, delivered, handledOk, firstToken, firstOpen,
                 unsaved, crashes, outsideRunner>>

HandleThrows(s) ==
  /\ loopPc[s] = "handle"
  /\ loopPc' = [loopPc EXCEPT ![s] = "next"]
  /\ errorLog' = [errorLog EXCEPT ![s] = @ \cup {cursor[s]}]
  /\ UNCHANGED <<mainPc, marker, oplog, syncState, cursor, delivered, handledOk,
                 firstToken, firstOpen, unsaved, crashes, outsideRunner>>

\* stateCollection.updateOne({_id}, {$set: {resumeToken: change._id}}, {upsert})
\* a token write with $setOnInsert: only the first position is ever stored
SaveToken_KeepsFirst(s) ==
  /\ loopPc[s] = "save"
  /\ loopPc' = [loopPc EXCEPT ![s] = "next"]
  /\ syncState' = [syncState EXCEPT ![s] = IF @ = NoState THEN cursor[s] ELSE @]
  /\ firstToken' = [firstToken EXCEPT ![s] = IF @ = NoState THEN cursor[s] ELSE @]
  /\ UNCHANGED <<mainPc, marker, oplog, cursor, delivered, handledOk, errorLog,
                 firstOpen, unsaved, crashes, outsideRunner>>

SaveToken(s) ==
  /\ loopPc[s] = "save"
  /\ loopPc' = [loopPc EXCEPT ![s] = "next"]
  /\ syncState' = [syncState EXCEPT ![s] = cursor[s]]
  /\ firstToken' = [firstToken EXCEPT ![s] = IF @ = NoState THEN cursor[s] ELSE @]
  /\ UNCHANGED <<mainPc, marker, oplog, cursor, delivered, handledOk, errorLog,
                 firstOpen, unsaved, crashes, outsideRunner>>

\* a failed write that leaves the position of the event behind all the same
SaveThrows_AdvancesToken(s) ==
  /\ loopPc[s] = "save"
  /\ loopPc' = [loopPc EXCEPT ![s] = "next"]
  /\ errorLog' = [errorLog EXCEPT ![s] = @ \cup {cursor[s]}]
  /\ saveFailed' = [saveFailed EXCEPT ![s] = @ \cup {cursor[s]}]
  /\ syncState' = [syncState EXCEPT ![s] = cursor[s]]
  /\ firstToken' = [firstToken EXCEPT ![s] = IF @ = NoState THEN cursor[s] ELSE @]
  /\ UNCHANGED <<mainPc, marker, oplog, cursor, delivered, handledOk,
                 firstOpen, unsaved, crashes, streamErrors, signals, outsideWorker>>

\* the updateOne throws: same catch as a handler error
SaveThrows(s) ==
  /\ loopPc[s] = "save"
  /\ loopPc' = [loopPc EXCEPT ![s] = "next"]
  /\ errorLog' = [errorLog EXCEPT ![s] = @ \cup {cursor[s]}]
  /\ saveFailed' = [saveFailed EXCEPT ![s] = @ \cup {cursor[s]}]
  /\ UNCHANGED <<mainPc, marker, oplog, syncState, cursor, delivered, handledOk,
                 firstToken, firstOpen, unsaved, crashes, streamErrors, signals,
                 outsideWorker>>

\* the process dies (kill, power loss, process.exit): every loop is gone, the
\* collections stay
Crash ==
  /\ mainPc # "down"
  /\ crashes < MaxCrashes
  /\ crashes' = crashes + 1
  /\ mainPc' = "down"
  /\ marker' = 0
  /\ loopPc' = [s \in Streams |-> "off"]
  /\ cursor' = [s \in Streams |-> 0]
  /\ unsaved' = [s \in Streams |->
                   IF loopPc[s] = "save"
                     THEN unsaved[s] \cup
                            {[pos |-> cursor[s], hadToken |-> syncState[s] # NoState]}
                     ELSE unsaved[s]]
  /\ UNCHANGED <<oplog, syncState, delivered, handledOk, errorLog, firstToken, firstOpen, outsideRunner>>

\* the process is started again: module top level, then main()
Restart ==
  /\ mainPc = "down"
  /\ mainPc' = "connect"
  /\ UNCHANGED <<marker, oplog, syncState, cursor, loopPc, delivered, handledOk,
                 errorLog, firstToken, firstOpen, unsaved, crashes, outsideRunner>>

Init ==
  IdleSources /\ IdleUpdates /\ InitRunner /\ IdleHandlers /\ IdleShards /\ IdleConfig /\ IdleRace

Next ==
  \/ Connect
  \/ EnsurePreAndPostImages
  \/ \E s \in Streams : StartChangeStream(s)
  \/ Ready
  \/ \E s \in Streams : AppendEvent(s)
  \/ \E s \in Streams : Deliver(s)
  \/ \E s \in Streams : HandleReturns(s)
  \/ \E s \in Streams : HandleThrows(s)
  \/ \E s \in Streams : SaveToken(s)
  \/ \E s \in Streams : SaveThrows(s)
  \/ Crash
  \/ Restart

Spec == Init /\ [][Next]_vars

\* Scheduling: the event loop runs every continuation that is ready, a database
\* call or a handler returns or throws, and a stopped worker is started again.
\* Crashes and source writes are the environment's and are not forced.
Fairness ==
  /\ WF_vars(Connect) /\ WF_vars(EnsurePreAndPostImages) /\ WF_vars(Ready)
  /\ WF_vars(Restart)
  /\ \A s \in Streams :
       /\ WF_vars(StartChangeStream(s))
       /\ WF_vars(Deliver(s))
       /\ WF_vars(HandleReturns(s) \/ HandleThrows(s))
       /\ WF_vars(SaveToken(s) \/ SaveThrows(s))

FairSpec == Spec /\ Fairness

\* --- faults the loop has no handler for (SpecFaults)

MaxStreamErrors == 1
MaxSignals == 1

\* what a process exit leaves of the positions of the loops: a token write that
\* was pending is recorded in unsaved
UnsavedAtExit ==
  [s \in Streams |->
     IF loopPc[s] = "save"
       THEN unsaved[s] \cup {[pos |-> cursor[s], hadToken |-> syncState[s] # NoState]}
       ELSE unsaved[s]]

\* the stream raises an error while `for await (const change of stream)` waits
\* for the next change. The rejection comes from the iterator, outside the try
\* block of the loop body, so it ends the un-awaited async function of the loop.
\* Nothing handles that rejection: the runtime either ends the process with it
\* (its default) or only reports it, and then the loop of this stream is gone
\* while the process and the other loops go on.
StreamError(s) ==
  /\ mainPc # "down"
  /\ loopPc[s] = "next"
  /\ streamErrors < MaxStreamErrors
  /\ streamErrors' = streamErrors + 1
  /\ \/ /\ mainPc' = "down"
        /\ marker' = 0
        /\ loopPc' = [t \in Streams |-> "off"]
        /\ cursor' = [t \in Streams |-> 0]
        /\ unsaved' = UnsavedAtExit
     \/ /\ loopPc' = [loopPc EXCEPT ![s] = "off"]
        /\ UNCHANGED <<mainPc, marker, cursor, unsaved>>
  /\ UNCHANGED <<oplog, syncState, delivered, handledOk, errorLog, firstToken, firstOpen,
                 crashes, saveFailed, signals, outsideWorker>>

\* the process is sent a termination signal. The worker registers no handler
\* for it, so the default action ends the process at once, whatever the loops
\* are doing.
Signal ==
  /\ mainPc # "down"
  /\ signals < MaxSignals
  /\ signals' = signals + 1
  /\ mainPc' = "down"
  /\ marker' = 0
  /\ loopPc' = [t \in Streams |-> "off"]
  /\ cursor' = [t \in Streams |-> 0]
  /\ unsaved' = UnsavedAtExit
  /\ UNCHANGED <<oplog, syncState, delivered, handledOk, errorLog, firstToken, firstOpen,
                 crashes, saveFailed, streamErrors, outsideWorker>>

NextFaults ==
  \/ Next
  \/ \E s \in Streams : StreamError(s)
  \/ Signal

SpecFaults == Init /\ [][NextFaults]_vars

\* ------------------------------------------------------------ handlers
\* SpecHandlers models the three change handlers on the derived collections:
\* every action hands one change event to a handler, which runs to its end.

\* change events handled in one run
MaxChanges == 2
\* longest tagList of an article
MaxTags == 2

UserIds == {"u1", "u2"}
ArticleIds == {"a1", "a2"}
TagNames == {"js", "node"}
\* values of a profile field; "" is the falsy one
Vals == {"", "x", "y"}
\* fields an update of a user document can touch
UserFields == {"username", "image", "bio", "email"}

\* an optional document: null, or the document
Null == <<>>
Some(doc) == <<doc>>

UserDocs == [username : Vals, image : Vals, bio : Vals]

TagLists == UNION {[1..n -> TagNames] : n \in 0..MaxTags}

\* change events of the users collection
UserChanges ==
  [operationType : {"update"}, documentKey : UserIds,
   updatedFields : SUBSET UserFields,
   fullDocument : {Null} \cup {Some(d) : d \in UserDocs}]
  \cup
  [operationType : {"insert"}, documentKey : UserIds, updatedFields : {{}},
   fullDocument : {Some(d) : d \in UserDocs}]
  \cup
  [operationType : {"delete"}, documentKey : UserIds, updatedFields : {{}},
   fullDocument : {Null}]

\* change events of the articles collection: the tagList of the pre-image and
\* of the post-image, each null when the event carries no such document
ArticleChanges ==
  [fullDocumentBeforeChange : {Null} \cup {Some(l) : l \in TagLists},
   fullDocument : {Null} \cup {Some(l) : l \in TagLists}]

\* change events of the favorites collection: the articleId of the pre-image
\* and of the post-image
FavoriteChanges ==
  [operationType : {"insert", "update", "delete"},
   fullDocumentBeforeChange : {Null} \cup {Some(a) : a \in ArticleIds},
   fullDocument : {Null} \cup {Some(a) : a \in ArticleIds}]

\* a test that takes every event on users for a profile edit
profileChanged_Always(change) == TRUE

\* "username" in fields || "image" in fields || "bio" in fields
\* a test that looks for username in the updated fields and for nothing else
profileChanged_UsernameOnly(change) == "username" \in change.updatedFields

profileChanged(change) ==
  \/ "username" \in change.updatedFields
  \/ "image" \in change.updatedFields
  \/ "bio" \in change.updatedFields

\* an update object that also resets the article's counter of favorites
UserUpdate_ResetsCount(doc) ==
  LET set == {f \in {"authorUsername", "authorImage", "authorBio"} :
                CASE f = "authorUsername" -> doc.username # ""
                  [] f = "authorImage" -> doc.image # ""
                  [] f = "authorBio" -> doc.bio # ""}
  IN [f \in set \cup {"favoritesCount"} |->
        CASE f = "authorUsername" -> doc.username
          [] f = "authorImage" -> doc.image
          [] f = "authorBio" -> doc.bio
          [] f = "favoritesCount" -> 0]

\* the update object: a field is set when the post-image's value is truthy
UserUpdate(doc) ==
  LET set == {f \in {"authorUsername", "authorImage", "authorBio"} :
                CASE f = "authorUsername" -> doc.username # ""
                  [] f = "authorImage" -> doc.image # ""
                  [] f = "authorBio" -> doc.bio # ""}
  IN [f \in set |-> CASE f = "authorUsername" -> doc.username
                      [] f = "authorImage" -> doc.image
                      [] f = "authorBio" -> doc.bio]

\* an update that replaces the matched documents instead of setting fields in
\* them: what the update does not name goes back to its default
UpdateMany_Replace(col, userId, update) ==
  [id \in DOMAIN col |->
     IF col[id].authorId = userId
       THEN [f \in DOMAIN col[id] |->
               IF f \in DOMAIN update THEN update[f]
               ELSE IF f = "favoritesCount" THEN 0
               ELSE col[id][f]]
       ELSE col[id]]

\* updateMany({authorId: userId}, {$set: update})
UpdateMany(col, userId, update) ==
  [id \in DOMAIN col |->
     IF col[id].authorId = userId
       THEN [f \in DOMAIN col[id] |->
               IF f \in DOMAIN update THEN update[f] ELSE col[id][f]]
       ELSE col[id]]

\* handleUserChange: the collections after the handler, and whether it threw
handleUserChange(change, articlesCol, commentsCol) ==
  IF ~profileChanged(change)
    THEN [threw |-> FALSE, articles |-> articlesCol, comments |-> commentsCol]
  ELSE IF change.fullDocument = Null
    \* const { username, image, bio } = change.fullDocument: TypeError on null
    THEN [threw |-> TRUE, articles |-> articlesCol, comments |-> commentsCol]
  ELSE LET update == UserUpdate(change.fullDocument[1])
       IN IF DOMAIN update = {}
            THEN [threw |-> FALSE, articles |-> articlesCol, comments |-> commentsCol]
            ELSE [threw |-> FALSE,
                  articles |-> UpdateMany(articlesCol, change.documentKey, update),
                  comments |-> UpdateMany(commentsCol, change.documentKey, update)]

\* change.fullDocument?.tagList || []
TagListOf(doc) == IF doc = Null THEN <<>> ELSE doc[1]

\* array.includes(t)
Includes(list, t) == \E i \in 1..Len(list) : list[i] = t

\* list.filter((t) => !other.includes(t))
NotIn(list, other) ==
  LET keep(t) == ~Includes(other, t) IN SelectSeq(list, keep)

\* updateOne({_id: t}, {$inc: {articleCount: 1}}, {upsert: true})
IncTagUpsert(tagsCol, t) ==
  [x \in DOMAIN tagsCol \cup {t} |->
     IF x = t THEN (IF t \in DOMAIN tagsCol THEN tagsCol[t] + 1 ELSE 1)
     ELSE tagsCol[x]]

\* findOneAndUpdate({_id: t}, {$inc: {articleCount: -1}}, {returnDocument: "after"})
DecTag(tagsCol, t) ==
  IF t \in DOMAIN tagsCol THEN [tagsCol EXCEPT ![t] = @ - 1] ELSE tagsCol

\* if (res?.articleCount <= 0) deleteOne({_id: t})
DeleteTagIfEmpty(tagsCol, t) ==
  IF t \in DOMAIN tagsCol /\ tagsCol[t] <= 0
    THEN [x \in DOMAIN tagsCol \ {t} |-> tagsCol[x]]
    ELSE tagsCol

RECURSIVE IncAll(_, _)
\* for (const t of added) ...
IncAll(tagsCol, added) ==
  IF added = <<>> THEN tagsCol
  ELSE IncAll(IncTagUpsert(tagsCol, Head(added)), Tail(added))

RECURSIVE DecAll(_, _)
\* for (const t of removed) ...
DecAll(tagsCol, removed) ==
  IF removed = <<>> THEN tagsCol
  ELSE DecAll(DeleteTagIfEmpty(DecTag(tagsCol, Head(removed)), Head(removed)),
              Tail(removed))

\* handleArticleChange: the tags collection after the handler
handleArticleChange(change, tagsCol) ==
  LET oldTags == TagListOf(change.fullDocumentBeforeChange)
      newTags == TagListOf(change.fullDocument)
      added == NotIn(newTags, oldTags)
      removed == NotIn(oldTags, newTags)
  IN DecAll(IncAll(tagsCol, added), removed)

\* updateOne({_id: articleId}, {$inc: {favoritesCount: delta}})
\* an updateOne with {upsert: true}: an article that is absent is created
IncFavorites_Upsert(articlesCol, articleId, delta) ==
  IF articleId \in DOMAIN articlesCol
    THEN [articlesCol EXCEPT ![articleId].favoritesCount = @ + delta]
    ELSE [id \in DOMAIN articlesCol \cup {articleId} |->
            IF id = articleId
              THEN [authorId |-> "", authorUsername |-> "", authorImage |-> "",
                    authorBio |-> "", favoritesCount |-> delta]
              ELSE articlesCol[id]]

IncFavorites(articlesCol, articleId, delta) ==
  IF articleId \in DOMAIN articlesCol
    THEN [articlesCol EXCEPT ![articleId].favoritesCount = @ + delta]
    ELSE articlesCol

\* a handler without the delete branch
handleFavoriteChange_InsertOnly(change, articlesCol) ==
  IF change.operationType = "insert" /\ change.fullDocument # Null
    THEN IncFavorites(articlesCol, change.fullDocument[1], 1)
    ELSE articlesCol

\* a handler that reads the articleId of a delete from the post-image
handleFavoriteChange_PostImage(change, articlesCol) ==
  IF change.operationType \in {"insert", "delete"} /\ change.fullDocument # Null
    THEN IncFavorites(articlesCol, change.fullDocument[1],
                      IF change.operationType = "insert" THEN 1 ELSE -1)
    ELSE articlesCol

\* handleFavoriteChange: the articles collection after the handler
handleFavoriteChange(change, articlesCol) ==
  IF change.operationType = "insert"
    THEN IF change.fullDocument # Null
           THEN IncFavorites(articlesCol, change.fullDocument[1], 1)
           ELSE articlesCol
  ELSE IF change.operationType = "delete"
    THEN IF change.fullDocumentBeforeChange # Null
           THEN IncFavorites(articlesCol, change.fullDocumentBeforeChange[1], -1)
           ELSE articlesCol
  ELSE articlesCol

\* the worker's other parts, when a specification leaves the runner out
IdleRunner == InitRunner

\* the derived collections the tests start from: articles of u1 and of u2 and
\* a comment of u1 carrying copies of the author's profile, no tags
InitHandlers ==
  /\ articles \in
       {[id \in ids |->
           [authorId |-> IF id = "a1" THEN "u1" ELSE "u2", authorUsername |-> "x",
            authorImage |-> "x", authorBio |-> "x", favoritesCount |-> 0]] :
        ids \in SUBSET ArticleIds}
  /\ comments = [id \in {"c1"} |->
                   [authorId |-> "u1", authorUsername |-> "x", authorImage |-> "x",
                    authorBio |-> "x"]]
  /\ tags = <<>>
  /\ changes = 0
  /\ lastChange = "none"
  /\ event = NoEvent

\* the users stream hands a change event to handleUserChange
UserChange ==
  /\ changes < MaxChanges
  /\ \E change \in UserChanges :
       LET res == handleUserChange(change, articles, comments)
       IN /\ articles' = res.articles
          /\ comments' = res.comments
          /\ lastChange' = IF res.threw THEN "users threw" ELSE "users"
  /\ changes' = changes + 1
  /\ UNCHANGED <<tags, event, outsideHandlers>>

\* the articles stream hands a change event to handleArticleChange
ArticleChange ==
  /\ changes < MaxChanges
  /\ \E change \in ArticleChanges :
       tags' = handleArticleChange(change, tags)
  /\ changes' = changes + 1
  /\ lastChange' = "articles"
  /\ UNCHANGED <<articles, comments, event, outsideHandlers>>

\* the favorites stream hands a change event to handleFavoriteChange
FavoriteChange ==
  /\ changes < MaxChanges
  /\ \E change \in FavoriteChanges :
       articles' = handleFavoriteChange(change, articles)
  /\ changes' = changes + 1
  /\ lastChange' = "favorites"
  /\ UNCHANGED <<comments, tags, event, outsideHandlers>>

NextHandlers == UserChange \/ ArticleChange \/ FavoriteChange

InitOfHandlers ==
  IdleSources /\ IdleUpdates /\ IdleRunner /\ IdleShards /\ IdleConfig /\ IdleRace /\ InitHandlers

SpecHandlers == InitOfHandlers /\ [][NextHandlers]_vars

\* ------------------------------------------------- one change event
\* SpecOneChange models one call of a handler: a stream yields one change
\* event, the derived collections are in some state, and the handler runs to
\* its end with no other writer.

\* largest articleCount of a Tag record the event finds
MaxCount == 2

\* the tags collection the event finds: records of some tags, each counting
\* one article or more
TagCollections == UNION {[T -> 1..MaxCount] : T \in SUBSET TagNames}

InitOneChange ==
  /\ \/ \E change \in UserChanges : event = [coll |-> "users", change |-> change]
     \/ \E change \in ArticleChanges : event = [coll |-> "articles", change |-> change]
     \/ \E change \in FavoriteChanges :
          event = [coll |-> "favorites", change |-> change]
  /\ articles \in
       {[id \in ids |->
           [authorId |-> IF id = "a1" THEN "u1" ELSE "u2", authorUsername |-> "x",
            authorImage |-> "x", authorBio |-> "x", favoritesCount |-> n]] :
        ids \in SUBSET ArticleIds, n \in 0..MaxCount}
  /\ comments = [id \in {"c1"} |->
                   [authorId |-> "u1", authorUsername |-> "x", authorImage |-> "x",
                    authorBio |-> "x"]]
  /\ tags \in TagCollections
  /\ changes = 0
  /\ lastChange = "none"

\* await handleChange(change) of the users stream
HandleUserEvent ==
  /\ changes = 0
  /\ event.coll = "users"
  /\ LET res == handleUserChange(event.change, articles, comments)
     IN /\ articles' = res.articles
        /\ comments' = res.comments
        /\ lastChange' = IF res.threw THEN "users threw" ELSE "users"
  /\ changes' = 1
  /\ UNCHANGED <<tags, event, outsideHandlers>>

\* await handleChange(change) of the articles stream
HandleArticleEvent ==
  /\ changes = 0
  /\ event.coll = "articles"
  /\ tags' = handleArticleChange(event.change, tags)
  /\ changes' = 1
  /\ lastChange' = "articles"
  /\ UNCHANGED <<articles, comments, event, outsideHandlers>>

\* await handleChange(change) of the favorites stream
HandleFavoriteEvent ==
  /\ changes = 0
  /\ event.coll = "favorites"
  /\ articles' = handleFavoriteChange(event.change, articles)
  /\ changes' = 1
  /\ lastChange' = "favorites"
  /\ UNCHANGED <<comments, tags, event, outsideHandlers>>

NextOneChange == HandleUserEvent \/ HandleArticleEvent \/ HandleFavoriteEvent

InitOfOneChange ==
  IdleSources /\ IdleUpdates /\ IdleRunner /\ IdleShards /\ IdleConfig /\ IdleRace /\ InitOneChange

SpecOneChange == InitOfOneChange /\ [][NextOneChange]_vars

\* --- successive edits of one user's profile (SpecUpdates)

\* updateOne calls the application makes on the user's document
MaxUpdates == 2

\* the user whose profile is edited, author of article a1 and of comment c1
EditedUser == "u1"

\* the user's document: the three profile fields and one field the worker
\* does not copy
EmailVals == {"x", "y"}
UserVersion(d) == [username |-> d.username, image |-> d.image, bio |-> d.bio]

\* the $set documents of the edits: image and bio can be emptied, username and
\* email are never empty
UpdateSets ==
  {set \in UNION {[S -> Vals] : S \in SUBSET UserFields \ {{}}} :
     /\ "email" \in DOMAIN set => set["email"] \in EmailVals
     /\ "username" \in DOMAIN set => set["username"] # ""}

\* the document after updateOne({_id}, {$set: set})
ApplySet(doc, set) ==
  [f \in DOMAIN doc |-> IF f \in DOMAIN set THEN set[f] ELSE doc[f]]

\* a server that reports every field the $set names as updated
ChangedFields_Named(doc, set) == DOMAIN set

\* updateDescription.updatedFields: the server logs the fields whose value the
\* update changed; a $set of the value a field already has is not logged
ChangedFields(doc, set) == {f \in DOMAIN set : set[f] # doc[f]}

\* the versions the post-image of an event can be: fullDocument: "updateLookup"
\* reads the document when the event is fetched, so it is the version the
\* event made or a later one
LookupVersions(e) == e.version .. Len(versions)

InitUpdates ==
  /\ versions = <<[username |-> "x", image |-> "x", bio |-> "x", email |-> "x"]>>
  /\ userLog = <<>>
  /\ updates = 0
  /\ writes = 0
  /\ articles = [id \in ArticleIds |->
                   [authorId |-> IF id = "a1" THEN "u1" ELSE "u2", authorUsername |-> "x",
                    authorImage |-> "x", authorBio |-> "x", favoritesCount |-> 0]]
  /\ comments = [id \in {"c1"} |->
                   [authorId |-> "u1", authorUsername |-> "x", authorImage |-> "x",
                    authorBio |-> "x"]]
  /\ tags = <<>>
  /\ changes = 0
  /\ lastChange = "none"
  /\ event = NoEvent

\* users.updateOne({_id}, {$set: set}) by the application. An update that
\* changes nothing is not logged and produces no change event; otherwise the
\* event names the fields that changed. noop records that the three profile
\* fields have the values they had before.
UpdateUser(set) ==
  /\ updates < MaxUpdates
  /\ updates' = updates + 1
  /\ LET old == versions[Len(versions)]
         new == ApplySet(old, set)
         changed == ChangedFields(old, set)
     IN IF changed = {}
          THEN UNCHANGED <<versions, userLog>>
          ELSE /\ versions' = Append(versions, new)
               /\ userLog' = Append(userLog,
                                    [updatedFields |-> changed,
                                     version |-> Len(versions) + 1,
                                     noop |-> UserVersion(new) = UserVersion(old)])
  /\ UNCHANGED <<writes, handlerVars, outsideUpdates>>

\* the updateMany calls a call of handleUserChange issues
UserWrites(change) ==
  IF /\ profileChanged(change)
     /\ change.fullDocument # Null
     /\ DOMAIN UserUpdate(change.fullDocument[1]) # {}
    THEN 2
    ELSE 0

\* the users loop hands the next event of the log to handleUserChange
HandleNextUserEvent ==
  /\ changes < Len(userLog)
  /\ LET e == userLog[changes + 1]
     IN \E j \in LookupVersions(e) :
          LET change == [operationType |-> "update", documentKey |-> EditedUser,
                         updatedFields |-> e.updatedFields,
                         fullDocument |-> Some(UserVersion(versions[j]))]
              res == handleUserChange(change, articles, comments)
          IN /\ articles' = res.articles
             /\ comments' = res.comments
             /\ writes' = writes + UserWrites(change)
             /\ lastChange' = IF res.threw THEN "users threw" ELSE "users"
  /\ changes' = changes + 1
  /\ UNCHANGED <<tags, event, versions, userLog, updates, outsideUpdates>>

NextUpdates ==
  \/ \E set \in UpdateSets : UpdateUser(set)
  \/ HandleNextUserEvent

InitOfUpdates ==
  IdleSources /\ IdleRunner /\ IdleShards /\ IdleConfig /\ IdleRace /\ InitUpdates

SpecUpdates == InitOfUpdates /\ [][NextUpdates]_vars

\* --- the articles collection, its change events and the tags (SpecTags)

\* writes the application makes on the articles collection
MaxArticleWrites == 3

\* the tagList of article a now: Null when a was never inserted or was deleted
CurrentTagList(a) ==
  IF tagVersions[a] = <<>> THEN Null ELSE tagVersions[a][Len(tagVersions[a])]

\* the post-images an event can carry. An insert carries the inserted
\* document and a delete none; for an update, fullDocument: "updateLookup"
\* reads the article when the event is fetched, so the post-image is the
\* version the update made or a later one, null once the article is deleted
PostImages(e) ==
  IF e.operationType = "update"
    THEN {tagVersions[e.id][j] : j \in e.version .. Len(tagVersions[e.id])}
    ELSE {tagVersions[e.id][e.version]}

InitTags ==
  /\ tagVersions = [a \in ArticleIds |-> <<>>]
  /\ articleLog = <<>>
  /\ srcWrites = 0
  /\ favorites = <<>>
  /\ favoriteLog = <<>>
  /\ articles = <<>>
  /\ comments = <<>>
  /\ tags = <<>>
  /\ changes = 0
  /\ lastChange = "none"
  /\ event = NoEvent

\* the write of one version of an article and the change event logged for it;
\* the pre-image of the event is the version before (fullDocumentBeforeChange:
\* "required")
WriteArticle(a, op, doc) ==
  /\ srcWrites < MaxArticleWrites
  /\ srcWrites' = srcWrites + 1
  /\ tagVersions' = [tagVersions EXCEPT ![a] = Append(@, doc)]
  /\ articleLog' = Append(articleLog,
                          [operationType |-> op, id |-> a,
                           fullDocumentBeforeChange |-> CurrentTagList(a),
                           version |-> Len(tagVersions[a]) + 1])
  /\ UNCHANGED <<favorites, favoriteLog, handlerVars, outsideSources>>

\* articles.insertOne({_id, tagList, ...}): an _id is used once
InsertArticle(a, tagList) ==
  /\ tagVersions[a] = <<>>
  /\ WriteArticle(a, "insert", Some(tagList))

\* articles.updateOne({_id}, {$set: {tagList}}) with another tagList
UpdateArticle(a, tagList) ==
  /\ CurrentTagList(a) # Null
  /\ CurrentTagList(a) # Some(tagList)
  /\ WriteArticle(a, "update", Some(tagList))

\* articles.deleteOne({_id})
DeleteArticle(a) ==
  /\ CurrentTagList(a) # Null
  /\ WriteArticle(a, "delete", Null)

\* the articles loop hands the next event of the log to handleArticleChange
HandleNextArticleEvent ==
  /\ articleLog # <<>>
  /\ LET e == Head(articleLog)
     IN \E post \in PostImages(e) :
          tags' = handleArticleChange(
                    [fullDocumentBeforeChange |-> e.fullDocumentBeforeChange,
                     fullDocument |-> post], tags)
  /\ articleLog' = Tail(articleLog)
  /\ changes' = changes + 1
  /\ lastChange' = "articles"
  /\ UNCHANGED <<articles, comments, event, tagVersions, favorites, favoriteLog,
                 srcWrites, outsideSources>>

NextTags ==
  \/ \E a \in ArticleIds, tagList \in TagLists : InsertArticle(a, tagList)
  \/ \E a \in ArticleIds, tagList \in TagLists : UpdateArticle(a, tagList)
  \/ \E a \in ArticleIds : DeleteArticle(a)
  \/ HandleNextArticleEvent

InitOfTags ==
  IdleUpdates /\ IdleRunner /\ IdleShards /\ IdleConfig /\ IdleRace /\ InitTags

SpecTags == InitOfTags /\ [][NextTags]_vars

\* --- the favorites collection, its change events and the counters (SpecFavs)

\* writes the application makes on favorites and articles
MaxFavoriteWrites == 4

FavoriteIds == {"f1", "f2"}

\* the workers of a deployment of two shards, and the shard whose pipeline
\* matches the events of a favorite (the hash of its documentKey._id)
FavWorkers == {1, 2}
FavShard(f) == IF f = "f1" THEN 1 ELSE 2

InitFavs ==
  /\ favorites = <<>>
  /\ favoriteLog = [w \in FavWorkers |-> <<>>]
  /\ srcWrites = 0
  /\ tagVersions = <<>>
  /\ articleLog = <<>>
  /\ articles = [id \in ArticleIds |->
                   [authorId |-> IF id = "a1" THEN "u1" ELSE "u2",
                    authorUsername |-> "x", authorImage |-> "x", authorBio |-> "x",
                    favoritesCount |-> 0]]
  /\ comments = <<>>
  /\ tags = <<>>
  /\ changes = 0
  /\ lastChange = "none"
  /\ event = NoEvent

\* favorites.insertOne({_id, articleId, ...}) for an article that exists; an
\* _id is used once. The insert event carries the inserted document.
InsertFavorite(f, a) ==
  /\ srcWrites < MaxFavoriteWrites
  /\ f \notin DOMAIN favorites
  /\ a \in DOMAIN articles
  /\ srcWrites' = srcWrites + 1
  /\ favorites' = [x \in DOMAIN favorites \cup {f} |->
                     IF x = f THEN Some(a) ELSE favorites[x]]
  /\ favoriteLog' = [favoriteLog EXCEPT ![FavShard(f)] =
                       Append(@, [operationType |-> "insert",
                                  fullDocumentBeforeChange |-> Null,
                                  fullDocument |-> Some(a)])]
  /\ UNCHANGED <<tagVersions, articleLog, handlerVars, outsideSources>>

\* favorites.deleteOne({_id}): the delete event carries the pre-image
\* (fullDocumentBeforeChange: "required") and no post-image
DeleteFavorite(f) ==
  /\ srcWrites < MaxFavoriteWrites
  /\ f \in DOMAIN favorites
  /\ favorites[f] # Null
  /\ srcWrites' = srcWrites + 1
  /\ favorites' = [favorites EXCEPT ![f] = Null]
  /\ favoriteLog' = [favoriteLog EXCEPT ![FavShard(f)] =
                       Append(@, [operationType |-> "delete",
                                  fullDocumentBeforeChange |-> favorites[f],
                                  fullDocument |-> Null])]
  /\ UNCHANGED <<tagVersions, articleLog, handlerVars, outsideSources>>

\* articles.deleteOne({_id}): the article is gone, its favorites stay
DeleteFavoritedArticle(a) ==
  /\ srcWrites < MaxFavoriteWrites
  /\ a \in DOMAIN articles
  /\ srcWrites' = srcWrites + 1
  /\ articles' = [id \in DOMAIN articles \ {a} |-> articles[id]]
  /\ UNCHANGED <<comments, tags, changes, lastChange, event, tagVersions, articleLog,
                 favorites, favoriteLog, outsideSources>>

\* the favorites loop of worker w hands the next event of its shard to
\* handleFavoriteChange
HandleNextFavoriteEvent(w) ==
  /\ favoriteLog[w] # <<>>
  /\ articles' = handleFavoriteChange(Head(favoriteLog[w]), articles)
  /\ favoriteLog' = [favoriteLog EXCEPT ![w] = Tail(@)]
  /\ changes' = changes + 1
  /\ lastChange' = "favorites"
  /\ UNCHANGED <<comments, tags, event, tagVersions, articleLog, favorites, srcWrites,
                 outsideSources>>

NextFavs ==
  \/ \E f \in FavoriteIds, a \in ArticleIds : InsertFavorite(f, a)
  \/ \E f \in FavoriteIds : DeleteFavorite(f)
  \/ \E a \in ArticleIds : DeleteFavoritedArticle(a)
  \/ \E w \in FavWorkers : HandleNextFavoriteEvent(w)

InitOfFavs ==
  IdleUpdates /\ IdleRunner /\ IdleShards /\ IdleConfig /\ IdleRace /\ InitFavs

SpecFavs == InitOfFavs /\ [][NextFavs]_vars

\* ------------------------------------------- concurrent handler calls
\* SpecRace models the handler calls of several workers (the shards of one
\* deployment, each with its own articles and favorites streams) on the shared
\* tags and articles collections.  Every database call is one atomic step;
\* between two awaits of one worker the calls of the others interleave.

\* workers handling change events at the same time
MaxWorkers == 2

RaceWorkers == 1..MaxWorkers

\* deleteOne({_id: t})
DeleteOne(tagsCol, t) == [x \in DOMAIN tagsCol \ {t} |-> tagsCol[x]]

\* the $inc handleFavoriteChange issues for the event: Null when it issues none
FavoriteInc(change) ==
  IF change.operationType = "insert" /\ change.fullDocument # Null
    THEN Some([articleId |-> change.fullDocument[1], delta |-> 1])
  ELSE IF change.operationType = "delete" /\ change.fullDocumentBeforeChange # Null
    THEN Some([articleId |-> change.fullDocumentBeforeChange[1], delta |-> -1])
  ELSE Null

InitRace ==
  /\ tags \in TagCollections
  /\ articles = [id \in ArticleIds |->
                   [authorId |-> IF id = "a1" THEN "u1" ELSE "u2",
                    authorUsername |-> "x", authorImage |-> "x", authorBio |-> "x",
                    favoritesCount |-> 0]]
  /\ comments = <<>>
  /\ changes = 0
  /\ lastChange = "none"
  /\ event = NoEvent
  /\ addedLeft = [w \in RaceWorkers |-> <<>>]
  /\ removedLeft = [w \in RaceWorkers |-> <<>>]
  /\ deleting = [w \in RaceWorkers |-> Null]
  /\ expected = [t \in TagNames |-> IF t \in DOMAIN tags THEN tags[t] ELSE 0]
  /\ expectedFav = [a \in ArticleIds |-> 0]
  /\ deletedCounts = {}

\* worker w's handler is between two events
Idle(w) == addedLeft[w] = <<>> /\ removedLeft[w] = <<>> /\ deleting[w] = Null

\* handleArticleChange is called: oldTags, newTags, added and removed are computed
BeginArticleChange(w) ==
  /\ Idle(w)
  /\ changes < MaxChanges
  /\ \E change \in ArticleChanges :
       LET oldTags == TagListOf(change.fullDocumentBeforeChange)
           newTags == TagListOf(change.fullDocument)
       IN /\ addedLeft' = [addedLeft EXCEPT ![w] = NotIn(newTags, oldTags)]
          /\ removedLeft' = [removedLeft EXCEPT ![w] = NotIn(oldTags, newTags)]
  /\ changes' = changes + 1
  /\ UNCHANGED <<articles, comments, tags, lastChange, event, deleting, expected,
                 expectedFav, deletedCounts, outsideRace>>

\* one turn of for (const t of added): the upsert with $inc 1
IncrementTag(w) ==
  /\ addedLeft[w] # <<>>
  /\ LET t == Head(addedLeft[w])
     IN /\ tags' = IncTagUpsert(tags, t)
        /\ expected' = [expected EXCEPT ![t] = @ + 1]
  /\ addedLeft' = [addedLeft EXCEPT ![w] = Tail(@)]
  /\ UNCHANGED <<articles, comments, changes, lastChange, event, removedLeft,
                 deleting, expectedFav, deletedCounts, outsideRace>>

\* one turn of for (const t of removed), up to the test of res: the
\* findOneAndUpdate with $inc -1, and res?.articleCount <= 0 on what it returned
DecrementTag(w) ==
  /\ addedLeft[w] = <<>>
  /\ deleting[w] = Null
  /\ removedLeft[w] # <<>>
  /\ LET t == Head(removedLeft[w])
         found == t \in DOMAIN tags
     IN /\ tags' = DecTag(tags, t)
        /\ expected' = IF found THEN [expected EXCEPT ![t] = @ - 1] ELSE expected
        /\ deleting' = [deleting EXCEPT ![w] =
                          IF found /\ tags'[t] <= 0 THEN Some(t) ELSE Null]
  /\ removedLeft' = [removedLeft EXCEPT ![w] = Tail(@)]
  /\ UNCHANGED <<articles, comments, changes, lastChange, event, addedLeft,
                 expectedFav, deletedCounts, outsideRace>>

\* the rest of the turn: await tagsCol.deleteOne({_id: t})
DeleteTag(w) ==
  /\ deleting[w] # Null
  /\ LET t == deleting[w][1]
         found == t \in DOMAIN tags
     IN /\ tags' = DeleteOne(tags, t)
        /\ deletedCounts' = IF found THEN deletedCounts \cup {tags[t]}
                            ELSE deletedCounts
        \* a counter destroyed at zero or below starts again from no article
        /\ expected' = IF found /\ tags[t] <= 0 THEN [expected EXCEPT ![t] = 0]
                       ELSE expected
  /\ deleting' = [deleting EXCEPT ![w] = Null]
  /\ UNCHANGED <<articles, comments, changes, lastChange, event, addedLeft,
                 removedLeft, expectedFav, outsideRace>>

\* handleFavoriteChange is called: its one updateOne with $inc
CountFavorite(w) ==
  /\ Idle(w)
  /\ changes < MaxChanges
  /\ \E change \in FavoriteChanges :
       LET inc == FavoriteInc(change)
       IN /\ inc # Null
          /\ articles' = IncFavorites(articles, inc[1].articleId, inc[1].delta)
          /\ expectedFav' = IF inc[1].articleId \in DOMAIN articles
                              THEN [expectedFav EXCEPT ![inc[1].articleId] =
                                      @ + inc[1].delta]
                              ELSE expectedFav
  /\ changes' = changes + 1
  /\ UNCHANGED <<comments, tags, lastChange, event, addedLeft, removedLeft,
                 deleting, expected, deletedCounts, outsideRace>>

NextRace ==
  \E w \in RaceWorkers :
    \/ BeginArticleChange(w)
    \/ IncrementTag(w)
    \/ DecrementTag(w)
    \/ DeleteTag(w)
    \/ CountFavorite(w)

InitOfRace ==
  IdleSources /\ IdleUpdates /\ IdleRunner /\ IdleShards /\ IdleConfig /\ InitRace

SpecRace == InitOfRace /\ [][NextRace]_vars

\* no handler call is in flight
NoHandlerInFlight == \A w \in RaceWorkers : Idle(w)

\* ------------------------------------------------------------- sharding
\* SpecShards models SHARD_COUNT workers watching one collection, each through
\* the pipeline createShardingPipeline builds for its SHARD_INDEX.

\* largest SHARD_COUNT of a deployment
MaxShards == 3
\* change events written to the watched collection
MaxWrites == 2
\* width of the hashed key in bits (a 64-bit long in MongoDB), kept small
HashBits == 3

DocIds == {"d1", "d2"}

MinLong == -(2 ^ (HashBits - 1))
MaxLong == 2 ^ (HashBits - 1) - 1
Longs == MinLong..MaxLong

\* the value of an aggregation expression, or the error it raises
Value(n) == [ok |-> TRUE, value |-> n]
ExprError == [ok |-> FALSE, value |-> 0]

\* $toLong of the hashed key, which is a long already
ToLong(key) == Value(key)

\* $abs: the absolute value; the smallest long has none and $abs raises
Abs(x) ==
  IF ~x.ok \/ x.value = MinLong THEN ExprError
  ELSE Value(IF x.value < 0 THEN -x.value ELSE x.value)

\* $mod of a non-negative long
Mod(x, n) == IF ~x.ok THEN ExprError ELSE Value(x.value % n)

\* a pipeline that filters whatever the shard count is
createShardingPipeline_Always(count, index) ==
  <<[shardCount |-> count, shardIndex |-> index]>>

\* createShardingPipeline: no stage for one shard, else the $match stage
\* {$expr: {$eq: [{$mod: [{$abs: {$toLong: {$toHashedIndexKey: _id}}}, shardCount]}, shardIndex]}}
createShardingPipeline(count, index) ==
  IF count = 1 THEN <<>>
  ELSE <<[shardCount |-> count, shardIndex |-> index]>>

\* the pipeline on an event of a document with this hashed key:
\* "match" (the stream yields the event), "skip", or "error"
Match(pipeline, key) ==
  IF pipeline = <<>> THEN "match"
  ELSE LET m == Mod(Abs(ToLong(key)), pipeline[1].shardCount)
       IN IF ~m.ok THEN "error"
          ELSE IF m.value = pipeline[1].shardIndex THEN "match" ELSE "skip"

Workers == 0..(shardCount - 1)

\* start-and-test.sh: SHARD_INDEX=$i SHARD_COUNT=$SHARD_COUNT npm start, all
\* workers attached before the first write
InitShards ==
  /\ shardCount \in 1..MaxShards
  /\ hashedKey \in [DocIds -> Longs]
  /\ changeLog = <<>>
  /\ handledBy = <<>>
  /\ pipelines = [w \in Workers |-> createShardingPipeline(shardCount, w)]
  /\ examined = [w \in Workers |-> 0]
  /\ streamState = [w \in Workers |-> "open"]

\* a write to document d of the watched collection
Write(d) ==
  /\ Len(changeLog) < MaxWrites
  /\ changeLog' = Append(changeLog, d)
  /\ handledBy' = Append(handledBy, {})
  /\ UNCHANGED <<shardCount, hashedKey, pipelines, examined, streamState,
                 outsideShards>>

\* worker w's change stream runs its pipeline on the next event: the event is
\* yielded to the loop and handled, or filtered out, or the stream fails
StreamNext(w) ==
  /\ streamState[w] = "open"
  /\ examined[w] < Len(changeLog)
  /\ LET i == examined[w] + 1
         m == Match(pipelines[w], hashedKey[changeLog[i]])
     IN /\ examined' = [examined EXCEPT ![w] = IF m = "error" THEN @ ELSE i]
        /\ handledBy' = [handledBy EXCEPT ![i] = IF m = "match" THEN @ \cup {w} ELSE @]
        /\ streamState' = [streamState EXCEPT ![w] = IF m = "error" THEN "failed" ELSE @]
  /\ UNCHANGED <<shardCount, hashedKey, changeLog, pipelines, outsideShards>>

InitOfShards ==
  IdleSources /\ IdleUpdates /\ IdleRunner /\ IdleHandlers /\ IdleConfig /\ IdleRace /\ InitShards

NextShards ==
  \/ \E d \in DocIds : Write(d)
  \/ \E w \in Workers : StreamNext(w)

SpecShards == InitOfShards /\ [][NextShards]_vars

\* no stream of the deployment can take a step: each has run its pipeline on
\* every event, or has failed
Quiescent ==
  \A w \in Workers : streamState[w] = "failed" \/ examined[w] = Len(changeLog)

\* -------------------------------------------------------- configuration
\* SpecConfig models the start of one worker process: the module's top level
\* (MONGODB_URI, getShardConfig, the client), then main() connecting and
\* opening the change streams.

\* longest value of an environment variable
MaxEnvLen == 2

\* characters of an environment value: digits, a sign and a letter
Chars == {"0", "1", "2", "-", "x"}
Digits == {"0", "1", "2"}

Strings == UNION {[1..n -> Chars] : n \in 0..MaxEnvLen}

\* an environment variable: Null when unset, else Some(its string)
EnvValues == {Null} \cup {Some(s) : s \in Strings}

\* a JavaScript number, or NaN
Num(n) == [nan |-> FALSE, value |-> n]
NaN == [nan |-> TRUE, value |-> 0]

DigitValue(c) == CASE c = "0" -> 0 [] c = "1" -> 1 [] c = "2" -> 2

RECURSIVE DigitPrefix(_)
\* the longest prefix of str made of digits
DigitPrefix(str) ==
  IF str = <<>> \/ Head(str) \notin Digits THEN <<>>
  ELSE <<Head(str)>> \o DigitPrefix(Tail(str))

RECURSIVE NumberOfDigits(_, _)
\* the number the digits spell in the radix
NumberOfDigits(digits, radix) ==
  IF digits = <<>> THEN 0
  ELSE NumberOfDigits(SubSeq(digits, 1, Len(digits) - 1), radix) * radix
         + DigitValue(digits[Len(digits)])

\* a parseInt that takes the whole string or nothing, as Number() does
parseInt_Strict(str) ==
  LET negative == str # <<>> /\ Head(str) = "-"
      body == IF negative THEN Tail(str) ELSE str
  IN IF body = <<>> \/ DigitPrefix(body) # body THEN NaN
     ELSE Num((IF negative THEN -1 ELSE 1) * NumberOfDigits(body, 10))

\* parseInt(str): an optional sign, an optional 0x, then the longest prefix of
\* digits; what follows the digits is ignored; NaN when there is no digit
parseInt(str) ==
  LET negative == str # <<>> /\ Head(str) = "-"
      unsigned == IF negative THEN Tail(str) ELSE str
      hex == Len(unsigned) >= 2 /\ unsigned[1] = "0" /\ unsigned[2] = "x"
      body == IF hex THEN SubSeq(unsigned, 3, Len(unsigned)) ELSE unsigned
      digits == DigitPrefix(body)
  IN IF digits = <<>> THEN NaN
     ELSE Num((IF negative THEN -1 ELSE 1)
                * NumberOfDigits(digits, IF hex THEN 16 ELSE 10))

\* an environment value in a condition: unset and "" are falsy
Truthy(v) == v # Null /\ v[1] # <<>>

\* getShardConfig(env): the configuration, or Null when it throws
getShardConfig(e) ==
  LET count == IF Truthy(e.SHARD_COUNT) THEN parseInt(e.SHARD_COUNT[1]) ELSE Num(1)
      index == IF Truthy(e.SHARD_INDEX) THEN parseInt(e.SHARD_INDEX[1]) ELSE Num(0)
  IN IF count.nan \/ count.value < 1 THEN Null
     ELSE IF index.nan \/ index.value < 0 THEN Null
     ELSE IF index.value >= count.value THEN Null
     ELSE Some([SHARD_COUNT |-> count.value, SHARD_INDEX |-> index.value])

\* the character of a decimal digit
DigitChar(d) ==
  CASE d = 0 -> "0" [] d = 1 -> "1" [] d = 2 -> "2" [] d = 3 -> "3" [] d = 4 -> "4"
    [] d = 5 -> "5" [] d = 6 -> "6" [] d = 7 -> "7" [] d = 8 -> "8" [] d = 9 -> "9"

RECURSIVE NumberToString(_)
\* `${n}` of a non-negative integer: its decimal digits
NumberToString(n) ==
  IF n < 10 THEN <<DigitChar(n)>>
  ELSE NumberToString(n \div 10) \o <<DigitChar(n % 10)>>

\* the literal part of a stream's stateId, up to the shard index
StateIdPrefix(s) ==
  CASE s = "users" ->
         <<"u", "s", "e", "r", "_", "p", "r", "o", "f", "i", "l", "e", "_",
         "s", "y", "n", "c", "_", "s", "h", "a", "r", "d", "_">>
    [] s = "articles" ->
         <<"a", "r", "t", "i", "c", "l", "e", "_", "t", "a", "g", "_", "s",
         "y", "n", "c", "_", "s", "h", "a", "r", "d", "_">>
    [] s = "favorites" ->
         <<"f", "a", "v", "o", "r", "i", "t", "e", "s", "_", "c", "o", "u",
         "n", "t", "_", "s", "y", "n", "c", "_", "s", "h", "a", "r", "d",
         "_">>

\* a stateId that leaves the shard index out
StateId_NoShard(s, index, count) ==
  StateIdPrefix(s) \o <<"_", "o", "f", "_">> \o NumberToString(count)

\* `..._sync_shard_${SHARD_INDEX}_of_${SHARD_COUNT}`: the _id of the stream's
\* record in sync_state, as its characters
StateId(s, index, count) ==
  StateIdPrefix(s) \o NumberToString(index) \o <<"_", "o", "f", "_">> \o NumberToString(count)

InitConfig ==
  /\ env \in [MONGODB_URI : {Null, Some(<<>>), Some(<<"x">>)},
              SHARD_COUNT : EnvValues, SHARD_INDEX : EnvValues]
  /\ bootPc = "load"
  /\ shardConfig = Null
  /\ stateIds = <<>>

\* the module's top level: MONGODB_URI, getShardConfig, new MongoClient
LoadConfig ==
  /\ bootPc = "load"
  /\ IF ~Truthy(env.MONGODB_URI)
       THEN bootPc' = "exit" /\ shardConfig' = Null
       ELSE /\ shardConfig' = getShardConfig(env)
            /\ bootPc' = IF shardConfig' = Null THEN "exit" ELSE "main"
  /\ UNCHANGED <<env, stateIds, outsideConfig>>

\* main(): await client.connect(); a failure ends in main().catch
ConnectClient ==
  /\ bootPc = "main"
  /\ bootPc' \in {"connected", "exit"}
  /\ UNCHANGED <<env, shardConfig, stateIds, outsideConfig>>

\* main(): the pipeline is built and the three change streams are opened, each
\* with its stateId
WatchStreams ==
  /\ bootPc = "connected"
  /\ bootPc' = "watching"
  /\ stateIds' = [s \in Streams |->
                    StateId(s, shardConfig[1].SHARD_INDEX, shardConfig[1].SHARD_COUNT)]
  /\ UNCHANGED <<env, shardConfig, outsideConfig>>

InitOfConfig ==
  IdleSources /\ IdleUpdates /\ IdleRunner /\ IdleHandlers /\ IdleShards /\ IdleRace /\ InitConfig

NextConfig == LoadConfig \/ ConnectClient \/ WatchStreams

SpecConfig == InitOfConfig /\ [][NextConfig]_vars

\* the loop of s waits for the next event and the log has none left
CaughtUp(s) == loopPc[s] = "next" /\ cursor[s] = oplog[s]

\* ------------------------------------------------------------ properties

\* C1: the resume token stored for a stream is always the position of an
\* event whose handler returned without error.
C1_StoredPositionWasHandled ==
  \A s \in Streams : syncState[s] # NoState => syncState[s] \in handledOk[s]

\* C1 witness: a token is stored while a later event of the stream has failed
\* in its handler and left the token where it was.
C1_Witness ==
  \E s \in Streams :
    /\ syncState[s] # NoState
    /\ \E p \in errorLog[s] \ handledOk[s] : p > syncState[s]
    /\ loopPc[s] = "next"

\* C2 as stated: every event of the worker's shard (every event after the
\* position the worker first attached at) is eventually delivered to
\* its handler and applied (the handler returns) at least once, whatever
\* crashes and restarts happen.
C2_NoChangeLost ==
  \A s \in Streams : \A p \in Positions :
    (firstOpen[s] # -1 /\ firstOpen[s] < p /\ p <= oplog[s]) ~> (p \in handledOk[s])

\* C2 amended: once a resume position has been stored for a stream, every
\* event after that position is eventually delivered to the handler, and the
\* handler returns or its error is logged, whatever crashes and restarts follow.
C2_NoChangeLostAfterStoredPosition ==
  \A s \in Streams : \A p \in Positions :
    (firstToken[s] # NoState /\ firstToken[s] < p /\ p <= oplog[s])
      ~> (p \in delivered[s] /\ p \in handledOk[s] \cup errorLog[s])

\* C2 witness: after a crash and a restart, the loop has caught up with a log
\* that holds events after the first stored position.
C2_Witness ==
  \E s \in Streams :
    /\ crashes > 0
    /\ firstToken[s] # NoState
    /\ oplog[s] > firstToken[s]
    /\ CaughtUp(s)
    /\ (firstToken[s] + 1)..oplog[s] \subseteq delivered[s]

\* the event at position p of stream s had its handler return, and its token
\* not yet saved, when the process crashed, and has not been delivered since
Unsaved(s, p) == \E u \in unsaved[s] : u.pos = p

\* the same, for a crash that found a resume token stored for the stream
UnsavedWithToken(s, p) == [pos |-> p, hadToken |-> TRUE] \in unsaved[s]

\* C3 as stated: an event whose handler completed and whose position was not
\* yet persisted when the worker crashed is delivered to the handler again
\* after the restart.
C3_RedeliveredAfterCrash ==
  \A s \in Streams : \A p \in Positions : Unsaved(s, p) ~> ~Unsaved(s, p)

\* C3 amended: such an event is delivered again after the restart when a
\* resume position was stored for the stream at the time of the crash (with
\* none stored the restart starts from "now" and the event is not redelivered).
C3_RedeliveredAfterCrashWithToken ==
  \A s \in Streams : \A p \in Positions :
    UnsavedWithToken(s, p) ~> ~UnsavedWithToken(s, p)

\* C3 witness: after a crash, the handler is running on an event that it had
\* already completed before the crash, and the stored token is still before it.
C3_Witness ==
  \E s \in Streams :
    /\ crashes > 0
    /\ loopPc[s] = "handle"
    /\ cursor[s] \in handledOk[s]
    /\ syncState[s] # NoState
    /\ syncState[s] < cursor[s]

\* C4: when the handler throws for an event, the loop logs the error, leaves
\* the stored position alone, stays running and waits for the next event of
\* the same stream.
C4_HandlerErrorSkipsEvent ==
  [][\A s \in Streams :
       (loopPc[s] = "handle" /\ loopPc'[s] \notin {"handle", "save"}
          /\ crashes' = crashes)
         => /\ cursor[s] \in errorLog'[s]
            /\ syncState'[s] = syncState[s]
            /\ loopPc'[s] = "next"
            /\ cursor'[s] = cursor[s]
            /\ mainPc' = mainPc]_vars

\* C4 witness: an event failed in its handler, was never applied, and the
\* loop has since been handed the next event of the stream.
C4_Witness ==
  \E s \in Streams : \E p \in errorLog[s] \ handledOk[s] :
    /\ crashes = 0
    /\ p + 1 \in delivered[s]
    /\ syncState[s] # p

\* C5: the stored resume position of a stream only moves forward in log order.
C5_PositionOnlyAdvances ==
  [][\A s \in Streams : syncState'[s] >= syncState[s]]_vars

\* C5 witness: after a crash and a restart the stored position has moved on
\* from the first position ever stored.
C5_Witness ==
  \E s \in Streams :
    /\ crashes > 0
    /\ firstToken[s] # NoState
    /\ syncState[s] > firstToken[s]
    /\ loopPc[s] = "next"

\* C6: for each of the three handlers and every change event, handling the
\* same event twice in a row leaves the derived collections as handling it once.
C6_HandlersIdempotent ==
  /\ \A change \in UserChanges :
       LET once == handleUserChange(change, articles, comments)
           twice == handleUserChange(change, once.articles, once.comments)
       IN twice.articles = once.articles /\ twice.comments = once.comments
  /\ \A change \in ArticleChanges :
       handleArticleChange(change, handleArticleChange(change, tags))
         = handleArticleChange(change, tags)
  /\ \A change \in FavoriteChanges :
       handleFavoriteChange(change, handleFavoriteChange(change, articles))
         = handleFavoriteChange(change, articles)

\* C7: for every shardCount >= 1 and every document identifier, the predicate
\* of createShardingPipeline(shardCount, shardIndex) accepts the identifier
\* for exactly one shardIndex in 0..shardCount-1.
C7_ExactlyOneShard ==
  \A n \in 1..MaxShards : \A d \in DocIds :
    Cardinality({i \in 0..(n - 1) :
                   Match(createShardingPipeline(n, i), hashedKey[d]) = "match"}) = 1

\* C8: with SHARD_COUNT workers running on SHARD_INDEX 0..SHARD_COUNT-1, no
\* change event is handled by two workers, and once the streams have nothing
\* left to do none is handled by no worker.
C8_EachEventHandledOnce ==
  \A i \in 1..Len(changeLog) :
    /\ Cardinality(handledBy[i]) <= 1
    /\ Quiescent => Cardinality(handledBy[i]) = 1

\* C9: with shardCount 1 the pipeline is empty and every change event the
\* single worker's stream has reached was delivered to it.
C9_SingleShardNoFilter ==
  shardCount = 1 =>
    /\ pipelines[0] = <<>>
    /\ streamState[0] = "open"
    /\ \A i \in 1..examined[0] : handledBy[i] = {0}

\* C9 witness: the single worker was given every event of the log, among them
\* one of a document whose hashed key is the smallest long.
C9_Witness ==
  /\ shardCount = 1
  /\ changeLog # <<>>
  /\ examined[0] = Len(changeLog)
  /\ \E i \in 1..Len(changeLog) :
       hashedKey[changeLog[i]] = MinLong /\ handledBy[i] = {0}

\* the string is a decimal integer: an optional sign and digits, nothing else
IsInteger(str) ==
  LET body == IF str # <<>> /\ Head(str) = "-" THEN Tail(str) ELSE str
  IN body # <<>> /\ \A i \in 1..Len(body) : body[i] \in Digits

\* the integer a decimal string spells
IntegerOf(str) ==
  IF Head(str) = "-" THEN -NumberOfDigits(Tail(str), 10)
  ELSE NumberOfDigits(str, 10)

\* the value is absent: unset or empty
Absent(v) == ~Truthy(v)

\* SHARD_COUNT and SHARD_INDEX as the documentation reads them: the default when
\* absent, the number when the value is a number, invalid otherwise
ValidConfig ==
  LET countOk == Absent(env.SHARD_COUNT)
                   \/ (IsInteger(env.SHARD_COUNT[1])
                        /\ IntegerOf(env.SHARD_COUNT[1]) >= 1)
      count == IF Absent(env.SHARD_COUNT) THEN 1 ELSE IntegerOf(env.SHARD_COUNT[1])
      indexOk == Absent(env.SHARD_INDEX)
                   \/ (IsInteger(env.SHARD_INDEX[1])
                        /\ IntegerOf(env.SHARD_INDEX[1]) >= 0)
      index == IF Absent(env.SHARD_INDEX) THEN 0 ELSE IntegerOf(env.SHARD_INDEX[1])
  IN countOk /\ indexOk /\ index < count

\* C10: once the top level has run, a configuration whose SHARD_COUNT is not
\* a number >= 1 or whose SHARD_INDEX is not a number in [0, SHARD_COUNT) has
\* thrown and never reaches the connection or a change stream; absent values
\* default to 1 and 0; an accepted configuration has 0 <= SHARD_INDEX < SHARD_COUNT.
C10_InvalidConfigRejected ==
  bootPc # "load" =>
    /\ ~ValidConfig => bootPc = "exit" /\ shardConfig = Null
    /\ shardConfig # Null =>
         /\ 0 <= shardConfig[1].SHARD_INDEX
         /\ shardConfig[1].SHARD_INDEX < shardConfig[1].SHARD_COUNT
         /\ Absent(env.SHARD_COUNT) => shardConfig[1].SHARD_COUNT = 1
         /\ Absent(env.SHARD_INDEX) => shardConfig[1].SHARD_INDEX = 0

\* C11: the stateIds a worker gives its three runners are pairwise distinct,
\* and none of them is the stateId of any stream of another valid
\* (SHARD_INDEX, SHARD_COUNT) pair: another shard of the same deployment, or a
\* shard of a deployment of up to MaxShards workers.
C11_ResumeRecordsNeverShared ==
  bootPc = "watching" =>
    LET index == shardConfig[1].SHARD_INDEX
        count == shardConfig[1].SHARD_COUNT
    IN \A s \in Streams :
         /\ \A s2 \in Streams : stateIds[s2] = stateIds[s] => s2 = s
         /\ \A n2 \in (1..MaxShards) \cup {count} :
              \A i2 \in 0..(n2 - 1) :
                \A s2 \in Streams :
                  StateId(s2, i2, n2) = stateIds[s] =>
                    s2 = s /\ i2 = index /\ n2 = count

\* C11 witness: a worker of a deployment of several shards, with a shard count
\* of two digits, has opened its streams.
C11_Witness ==
  /\ bootPc = "watching"
  /\ shardConfig[1].SHARD_COUNT >= 10
  /\ shardConfig[1].SHARD_INDEX >= 1

\* the profile fields that are copied into articles and comments
ProfileFields == {"username", "image", "bio"}

\* the copy of a profile field in an article or a comment
AuthorField(f) ==
  CASE f = "username" -> "authorUsername"
    [] f = "image" -> "authorImage"
    [] f = "bio" -> "authorBio"

\* the step is a call of handleUserChange
UserEventHandled == event.coll = "users" /\ changes = 0 /\ changes' = 1

\* C12: handleUserChange leaves every collection as it was when the event is
\* an insert or a delete on users, or an update whose updated-field set holds
\* none of username, image, bio; it writes to articles and comments only for
\* an event whose updated-field set holds one of the three.
C12_UserFanOutOnlyOnProfileEdit ==
  [][UserEventHandled =>
       /\ (event.change.operationType # "update"
             \/ event.change.updatedFields \cap ProfileFields = {})
            => UNCHANGED <<articles, comments, tags>>
       /\ (articles' # articles \/ comments' # comments)
            => event.change.updatedFields \cap ProfileFields # {}]_vars

\* C12 witness: an insert on users of a user who has an article, with a
\* profile that differs from the article's copy, was handled and the article
\* still carries the old copy.
C12_Witness ==
  /\ changes = 1
  /\ event.coll = "users"
  /\ event.change.operationType = "insert"
  /\ event.change.documentKey = "u1"
  /\ event.change.fullDocument[1].bio = "y"
  /\ "a1" \in DOMAIN articles
  /\ articles["a1"].authorBio = "x"

\* C13: after a user update whose updated-field set is {bio}, with a new bio
\* that is not empty, every article and comment of that author carries the
\* new bio and the authorUsername and authorImage it had before; articles and
\* comments of other authors are as before.
C13_BioOnlyUpdate ==
  [][(/\ UserEventHandled
      /\ event.change.operationType = "update"
      /\ event.change.updatedFields = {"bio"}
      /\ event.change.fullDocument # Null
      /\ event.change.fullDocument[1].bio # "")
       => /\ \A id \in DOMAIN articles :
               IF articles[id].authorId = event.change.documentKey
                 THEN /\ articles'[id].authorBio = event.change.fullDocument[1].bio
                      /\ articles'[id].authorUsername = articles[id].authorUsername
                      /\ articles'[id].authorImage = articles[id].authorImage
                 ELSE articles'[id] = articles[id]
          /\ \A id \in DOMAIN comments :
               IF comments[id].authorId = event.change.documentKey
                 THEN /\ comments'[id].authorBio = event.change.fullDocument[1].bio
                      /\ comments'[id].authorUsername = comments[id].authorUsername
                      /\ comments'[id].authorImage = comments[id].authorImage
                 ELSE comments'[id] = comments[id]]_vars

\* C14: handleUserChange changes an author field of an article or a comment
\* only if the user field it copies is in the event's updated-field set and
\* is truthy in the post-image.
C14_OnlyChangedAndTruthyWritten ==
  [][UserEventHandled =>
       \A f \in ProfileFields :
         (\/ \E id \in DOMAIN articles :
               articles'[id][AuthorField(f)] # articles[id][AuthorField(f)]
          \/ \E id \in DOMAIN comments :
               comments'[id][AuthorField(f)] # comments[id][AuthorField(f)])
           => /\ f \in event.change.updatedFields
              /\ event.change.fullDocument # Null
              /\ event.change.fullDocument[1][f] # ""]_vars

\* the tags of a tag list, each once
SetOf(list) == {list[i] : i \in 1..Len(list)}

\* the articleCount of a tag; a tag without a record counts no article
CountOf(tagsCol, t) == IF t \in DOMAIN tagsCol THEN tagsCol[t] ELSE 0

\* the step is a call of handleArticleChange
ArticleEventHandled == event.coll = "articles" /\ changes = 0 /\ changes' = 1

OldTags == SetOf(TagListOf(event.change.fullDocumentBeforeChange))
NewTags == SetOf(TagListOf(event.change.fullDocument))

\* C15: handleArticleChange raises the articleCount of every tag that is in
\* newTags and not in oldTags by exactly 1, whatever the number of times the
\* tag occurs in the list, creating the record with count 1 when there was
\* none, and leaves every tag that is in both lists as it was.
C15_AddedTagsCountedOnce ==
  [][ArticleEventHandled =>
       /\ \A t \in NewTags \ OldTags :
            t \in DOMAIN tags' /\ tags'[t] = CountOf(tags, t) + 1
       /\ \A t \in NewTags \cap OldTags :
            /\ (t \in DOMAIN tags') = (t \in DOMAIN tags)
            /\ CountOf(tags', t) = CountOf(tags, t)]_vars

\* C16: handleArticleChange lowers the articleCount of every tag that is in
\* oldTags and not in newTags by exactly 1 and deletes its record exactly
\* when the lowered count is <= 0; a removed tag without a record still has
\* none afterwards.
C16_RemovedTagsCountedOnce ==
  [][ArticleEventHandled =>
       \A t \in OldTags \ NewTags :
         IF t \in DOMAIN tags
           THEN IF tags[t] - 1 <= 0
                  THEN t \notin DOMAIN tags'
                  ELSE t \in DOMAIN tags' /\ tags'[t] = tags[t] - 1
           ELSE t \notin DOMAIN tags']_vars

\* C17: an insert of an article (no pre-image) raises the count of each of
\* its tags by 1; a delete of an article (no post-image) lowers the count of
\* each of its tags that has a record by 1 and removes the record whose count
\* was 1; the tags that are not in the article are as before.
C17_InsertAddsDeleteRemoves ==
  [][ArticleEventHandled =>
       /\ (event.change.fullDocumentBeforeChange = Null
             /\ event.change.fullDocument # Null)
            => /\ \A t \in NewTags :
                    t \in DOMAIN tags' /\ tags'[t] = CountOf(tags, t) + 1
               /\ \A t \in TagNames \ NewTags :
                    /\ (t \in DOMAIN tags') = (t \in DOMAIN tags)
                    /\ CountOf(tags', t) = CountOf(tags, t)
       /\ (event.change.fullDocument = Null
             /\ event.change.fullDocumentBeforeChange # Null)
            => /\ \A t \in OldTags \cap DOMAIN tags :
                    IF tags[t] = 1
                      THEN t \notin DOMAIN tags'
                      ELSE t \in DOMAIN tags' /\ tags'[t] = tags[t] - 1
               /\ \A t \in TagNames \ OldTags :
                    /\ (t \in DOMAIN tags') = (t \in DOMAIN tags)
                    /\ CountOf(tags', t) = CountOf(tags, t)]_vars

\* the step is a call of handleFavoriteChange
FavoriteEventHandled == event.coll = "favorites" /\ changes = 0 /\ changes' = 1

\* the articles other than the named one are as before
OtherArticlesUnchanged(articleId) ==
  /\ DOMAIN articles' = DOMAIN articles
  /\ \A id \in DOMAIN articles \ {articleId} : articles'[id] = articles[id]

\* C20: for an insert on favorites the article named by the post-image's
\* articleId has its favoritesCount raised by exactly 1; for a delete the
\* article named by the pre-image's articleId has it lowered by exactly 1; no
\* other article, and no other field of that article, is modified.
C20_FavoritesCounted ==
  [][FavoriteEventHandled =>
       /\ (event.change.operationType = "insert" /\ event.change.fullDocument # Null)
            => LET articleId == event.change.fullDocument[1]
               IN /\ OtherArticlesUnchanged(articleId)
                  /\ articleId \in DOMAIN articles =>
                       articles'[articleId] =
                         [articles[articleId] EXCEPT !.favoritesCount = @ + 1]
       /\ (event.change.operationType = "delete"
             /\ event.change.fullDocumentBeforeChange # Null)
            => LET articleId == event.change.fullDocumentBeforeChange[1]
               IN /\ OtherArticlesUnchanged(articleId)
                  /\ articleId \in DOMAIN articles =>
                       articles'[articleId] =
                         [articles[articleId] EXCEPT !.favoritesCount = @ - 1]
       /\ event.change.operationType = "update" => articles' = articles]_vars

\* C20 witness: a delete on favorites whose pre-image names article a1, and
\* whose post-image is null, was handled and a1 counts one favorite less
\* than the two it had, the other article still its two.
C20_Witness ==
  /\ changes = 1
  /\ event.coll = "favorites"
  /\ event.change.operationType = "delete"
  /\ event.change.fullDocumentBeforeChange = Some("a1")
  /\ event.change.fullDocument = Null
  /\ DOMAIN articles = ArticleIds
  /\ articles["a1"].favoritesCount = 1
  /\ articles["a2"].favoritesCount = 2

\* C18: whatever the interleaving of the workers' handler calls, a Tag record
\* has an articleCount <= 0 at the moment it is deleted, and when no handler
\* call is in flight no Tag record has an articleCount <= 0.
C18_TagDeletedOnlyAtZero ==
  /\ \A c \in deletedCounts : c <= 0
  /\ NoHandlerInFlight => \A t \in DOMAIN tags : tags[t] > 0

\* C19: whatever the interleaving, once no handler call is in flight every
\* counter holds the value it started from plus the deltas applied to it: a
\* tag with a positive sum has a record with that articleCount, a record
\* holds no other value, and every favoritesCount is its sum.
C19_NoCounterUpdateLost ==
  NoHandlerInFlight =>
    /\ \A t \in TagNames :
         /\ expected[t] > 0 => t \in DOMAIN tags
         /\ t \in DOMAIN tags => tags[t] = expected[t]
    /\ \A a \in ArticleIds : articles[a].favoritesCount = expectedFav[a]


C25_HandlerErrorStopsNothing ==
  [][\A s \in Streams :
       (loopPc[s] = "handle" /\ loopPc'[s] \notin {"handle", "save"}
          /\ crashes' = crashes)
         => /\ loopPc'[s] = "next"
            /\ mainPc' = mainPc
            /\ marker' = marker
            /\ \A t \in Streams \ {s} :
                 loopPc'[t] = loopPc[t] /\ cursor'[t] = cursor[t]]_vars

\* handlers have failed in two streams and every loop is still running
C25_Witness ==
  /\ mainPc = "running"
  /\ crashes = 0
  /\ errorLog["users"] # {}
  /\ errorLog["articles"] # {}
  /\ \A s \in Streams : loopPc[s] # "off"

\* C29: a handler starts only from the waiting position of its loop, that is
\* after the handler of the previous event and its token write or error report
\* have finished, and it is handed the event next in log order.
C29_OneEventAtATimeInLogOrder ==
  [][\A s \in Streams :
       (loopPc'[s] = "handle" /\ (loopPc[s] # "handle" \/ cursor'[s] # cursor[s]))
         => /\ loopPc[s] = "next"
            /\ cursor'[s] = cursor[s] + 1
            /\ cursor'[s] <= oplog[s]]_vars

\* the second event of a stream is in its handler after the first was saved
C29_Witness ==
  /\ loopPc["users"] = "handle"
  /\ cursor["users"] = 2
  /\ syncState["users"] = 1
  /\ crashes = 0


\* C26: an error raised by a stream while its loop waits for the next event
\* ends neither that loop nor the process, and leaves the other loops alone.
C26_StreamErrorStopsNothing ==
  [][streamErrors' # streamErrors
       => /\ mainPc' = mainPc
          /\ \A s \in Streams : loopPc'[s] = loopPc[s]]_vars

\* C28: a termination signal ends the process only when no handler call and no
\* token write is in flight in any stream.
C28_SignalWaitsForInFlightEvent ==
  [][signals' # signals
       => \A s \in Streams : loopPc[s] \notin {"handle", "save"}]_vars


\* a stream is started by main(): its loop goes from off to waiting
StreamOpened(s) == loopPc[s] = "off" /\ loopPc'[s] = "next"

\* C27 as stated: a failed token write after a successful handler leaves the
\* stored position as it was, and every start of the stream after it opens
\* before the event unless the position of that very event was written since.
C27_FailedSaveRedelivered ==
  [][\A s \in Streams :
       /\ saveFailed'[s] # saveFailed[s]
            => syncState'[s] = syncState[s] /\ cursor[s] \in handledOk[s]
       /\ StreamOpened(s)
            => \A p \in saveFailed[s] : syncState[s] # p => cursor'[s] < p]_vars

\* C27: a failed token write after a successful handler leaves the stored
\* position as it was; a start of the stream after it opens before the event,
\* so that it is delivered again, when the position stored at that start is the
\* position of an earlier event.
C27_FailedSaveKeepsPosition ==
  [][\A s \in Streams :
       /\ saveFailed'[s] # saveFailed[s]
            => syncState'[s] = syncState[s] /\ cursor[s] \in handledOk[s]
       /\ StreamOpened(s)
            => \A p \in saveFailed[s] :
                 (syncState[s] # NoState /\ syncState[s] < p) => cursor'[s] < p]_vars

\* the token write of event 2 failed, the process was restarted with the token
\* of event 1, and event 2 is in its handler again
C27_Witness ==
  /\ crashes = 1
  /\ 2 \in saveFailed["users"]
  /\ syncState["users"] = 1
  /\ cursor["users"] = 2
  /\ loopPc["users"] = "handle"
  /\ unsaved["users"] = {}


\* the articleId the handler reads from the event, if it reads one
FavoriteArticleId ==
  IF event.change.operationType = "insert" THEN event.change.fullDocument
  ELSE IF event.change.operationType = "delete" THEN event.change.fullDocumentBeforeChange
  ELSE Null

C30_StreamsCommute ==
  [][/\ ArticleEventHandled => articles' = articles /\ comments' = comments
     /\ FavoriteEventHandled => tags' = tags /\ comments' = comments
     /\ UserEventHandled =>
          /\ tags' = tags
          /\ \A f \in FavoriteChanges :
               LET favFirst == handleUserChange(event.change,
                                                handleFavoriteChange(f, articles),
                                                comments)
               IN /\ handleFavoriteChange(f, articles') = favFirst.articles
                  /\ comments' = favFirst.comments]_vars

\* a users event was handled that rewrote the author's name in article a1,
\* which keeps the two favorites the other stream counted
C30_Witness ==
  /\ changes = 1
  /\ event.coll = "users"
  /\ lastChange = "users"
  /\ "a1" \in DOMAIN articles
  /\ articles["a1"].authorUsername = "y"
  /\ articles["a1"].favoritesCount = 2


\* the derived documents of the edited user: its articles and comments
DerivedOf(articlesCol, commentsCol) ==
  {articlesCol[id] : id \in {a \in DOMAIN articlesCol : articlesCol[a].authorId = EditedUser}}
    \cup {[authorId |-> commentsCol[id].authorId,
           authorUsername |-> commentsCol[id].authorUsername,
           authorImage |-> commentsCol[id].authorImage,
           authorBio |-> commentsCol[id].authorBio,
           favoritesCount |-> 0] :
          id \in {c \in DOMAIN commentsCol : commentsCol[c].authorId = EditedUser}}

\* every event of the user's log has been handled
AllUserEventsHandled == changes = Len(userLog)

\* the step is a call of handleUserChange on the next event of the log
NextUserEventHandled == changes' = changes + 1 /\ userLog' = userLog

\* a handler call on event e writes no value that is older than e: a copy
\* either keeps its value or takes the value of the version e made or of a
\* later one
WritesInLogOrder ==
  LET e == userLog[changes + 1]
  IN \A id \in DOMAIN articles, f \in ProfileFields :
       \/ articles'[id][AuthorField(f)] = articles[id][AuthorField(f)]
       \/ \E j \in e.version .. Len(versions) :
            articles'[id][AuthorField(f)] = versions[j][f]

C23_NoOpUpdateWritesNothing ==
  [][/\ (updates' # updates
           /\ UserVersion(versions'[Len(versions')]) = UserVersion(versions[Len(versions)]))
          => /\ writes' = writes /\ articles' = articles /\ comments' = comments
             /\ \A k \in Len(userLog) + 1 .. Len(userLog') : userLog'[k].noop
             /\ versions' = versions => userLog' = userLog
     /\ (NextUserEventHandled /\ userLog[changes + 1].noop)
          => writes' = writes /\ articles' = articles /\ comments' = comments]_vars

\* two updates left the profile as it was: one changed nothing and left no
\* event, the other changed the email and its event was handled with no write
C23_Witness ==
  /\ updates = 2
  /\ Len(userLog) = 1
  /\ userLog[1].noop
  /\ changes = 1
  /\ writes = 0
  /\ lastChange = "users"


\* C34: the stored position of a stream changes only in the step that ends the
\* token write of an event whose handler returned, and then to the position of
\* that event, which lies after the position stored before; a token write that
\* ends without an error stores the position of its event. So the record holds
\* the position of the last event handled and written, there is none before
\* the first, and a stream started with a position stored after a failed event
\* opens after that event.
C34_StoredPositionIsLastSuccess ==
  [][\A s \in Streams :
       /\ syncState'[s] # syncState[s]
            => /\ loopPc[s] = "save" /\ loopPc'[s] = "next"
               /\ syncState'[s] = cursor[s]
               /\ cursor[s] \in handledOk[s]
               /\ cursor[s] > syncState[s]
       /\ (loopPc[s] = "save" /\ loopPc'[s] = "next" /\ crashes' = crashes)
            => \/ syncState'[s] = cursor[s]
               \/ syncState'[s] = syncState[s] /\ cursor[s] \in saveFailed'[s]
       /\ StreamOpened(s)
            => \A p \in errorLog[s] : syncState[s] > p => cursor'[s] >= p]_vars

\* event 1 of the users stream failed in its handler, event 2 was handled and
\* its position written; the restarted stream is open after both
C34_Witness ==
  /\ crashes = 1
  /\ 1 \in errorLog["users"] \ handledOk["users"]
  /\ syncState["users"] = 2
  /\ loopPc["users"] = "next"
  /\ cursor["users"] = 2


\* the documents of a collection agree before and after the step on every
\* field outside the given ones, and the collection holds the same documents
SameExcept(colBefore, colAfter, fields) ==
  /\ DOMAIN colAfter = DOMAIN colBefore
  /\ \A id \in DOMAIN colBefore :
       /\ DOMAIN colAfter[id] = DOMAIN colBefore[id]
       /\ \A f \in DOMAIN colBefore[id] \ fields : colAfter[id][f] = colBefore[id][f]

AuthorFields == {"authorUsername", "authorImage", "authorBio"}

\* C31: a call of handleUserChange changes nothing but the three author fields
\* of articles and comments, a call of handleArticleChange nothing but the
\* tags collection, a call of handleFavoriteChange nothing but favoritesCount
\* of articles; none of them changes a stored resume position or a user's
\* document.
C31_HandlersWriteOwnDataOnly ==
  [][/\ UserEventHandled
          => /\ SameExcept(articles, articles', AuthorFields)
             /\ SameExcept(comments, comments', AuthorFields)
             /\ tags' = tags
     /\ ArticleEventHandled => articles' = articles /\ comments' = comments
     /\ FavoriteEventHandled
          => /\ SameExcept(articles, articles', {"favoritesCount"})
             /\ comments' = comments
             /\ tags' = tags
     /\ changes' # changes => syncState' = syncState /\ versions' = versions]_vars

\* a users event was handled that rewrote the author's bio in comment c1 and
\* in article a1, whose counter of favorites and whose author are as before,
\* as is the tags collection
C31_Witness ==
  /\ changes = 1
  /\ event.coll = "users"
  /\ event.change.documentKey = "u1"
  /\ comments["c1"].authorBio = "y"
  /\ DOMAIN articles = ArticleIds
  /\ articles["a1"].authorBio = "y"
  /\ articles["a1"].favoritesCount = 1
  /\ articles["a1"].authorId = "u1"
  /\ articles["a2"].authorBio = "x"
  /\ DOMAIN tags = {"js"}


\* the articles whose tagList holds tag t
ArticlesTagged(t) ==
  {a \in ArticleIds :
     CurrentTagList(a) # Null /\ t \in SetOf(CurrentTagList(a)[1])}

\* C32: from an empty database, once every event of the articles collection
\* has been handled, the tags collection holds a record for exactly the tags
\* some article carries, and its articleCount is the number of those articles.
C32_TagCountsMatchArticles ==
  articleLog = <<>> =>
    \A t \in TagNames :
      IF ArticlesTagged(t) = {}
        THEN t \notin DOMAIN tags
        ELSE t \in DOMAIN tags /\ tags[t] = Cardinality(ArticlesTagged(t))


\* the favorites documents that reference article a
FavoritesOf(a) == {f \in DOMAIN favorites : favorites[f] = Some(a)}

\* C33: from articles with favoritesCount 0 and no favorites, once every
\* favorites event has been handled, the favoritesCount of every article that
\* exists is the number of favorites documents that reference it; and no
\* favoritesCount is ever negative.
C33_FavoritesCountMatches ==
  /\ \A a \in DOMAIN articles : articles[a].favoritesCount >= 0
  /\ (\A w \in FavWorkers : favoriteLog[w] = <<>>)
       => \A a \in DOMAIN articles :
            articles[a].favoritesCount = Cardinality(FavoritesOf(a))

\* favorite f1 of article a1 was inserted and deleted, favorite f2 of a1
\* inserted, on two shards; every event is handled and a1 counts one favorite
C33_Witness ==
  /\ srcWrites = 3
  /\ changes = 3
  /\ \A w \in FavWorkers : favoriteLog[w] = <<>>
  /\ DOMAIN favorites = FavoriteIds
  /\ favorites["f1"] = Null
  /\ favorites["f2"] = Some("a1")
  /\ DOMAIN articles = ArticleIds
  /\ articles["a1"].favoritesCount = 1
  /\ articles["a2"].favoritesCount = 0

====
